---- MODULE Spec2Model ----
(***************************************************************************)
(* Model of the netzob fuzzing mutators: the Mutator lifecycle (seed,      *)
(* counter budget, reset), and the StringMutator built on top of it        *)
(* (length-bound resolution, naughty string dictionary, generate/mutate).  *)
(*                                                                         *)
(* A method is modelled as an operator from the object's state (a record)  *)
(* to an outcome [self, exc, value]: the state after the call, the         *)
(* exception raised ("none" when the call returns) and the value returned. *)
(* An action applies one method to the object under test and records what  *)
(* the caller observed.                                                    *)
(***************************************************************************)
EXTENDS Integers, Sequences, FiniteSets, TLC

\* ------------------------------------------------------------------ bounds
\* Largest counterMax given to the constructor or to the counterMax setter.
MaxCounterMax == 2
\* Largest number of calls made on the two mutators of a pair together.
MaxCalls == 4
\* Largest number of values pulled from the composed generator in one run.
MaxCursor == 5

\* --------------------------------------------------------- Python values
\* A Python value: its type t, an integer or string identity v, and the
\* elements of a tuple or list.
PyNone == [t |-> "None", v |-> 0, elems |-> <<>>]
PyInt(n) == [t |-> "int", v |-> n, elems |-> <<>>]
PyStr(n) == [t |-> "str", v |-> n, elems |-> <<>>]
PyTuple(s) == [t |-> "tuple", v |-> 0, elems |-> s]
PyList(s) == [t |-> "list", v |-> 0, elems |-> s]

\* isinstance(x, int)
IsInt(x) == x.t = "int"

\* isinstance(x, tuple) and len(x) == 2 and all(isinstance(_, int) for _ in x)
IsIntPair(x) ==
    /\ x.t = "tuple"
    /\ Len(x.elems) = 2
    /\ \A i \in 1..Len(x.elems) : IsInt(x.elems[i])

\* int(n / 8): true division, then truncation towards zero.
IntDiv8(n) == IF n >= 0 THEN n \div 8 ELSE -((-n) \div 8)

\* ------------------------------------------------------ program constants
SEED_DEFAULT == 10
DEFAULT_MIN_LENGTH == 2
DEFAULT_MAX_LENGTH == 10
DEFAULT_END_CHAR == "\\0"
\* UnitSize.SIZE_8.value, the default lengthBitSize
SIZE_8 == 8
\* StringPaddedGenerator.DEFAULT_NAUGHTY_STRINGS: the built-in dictionary.
DEFAULT_NAUGHTY_STRINGS == PyList(<<PyStr(0)>>)

\* ------------------------------------------------------------- outcomes
Return(s, val) == [self |-> s, exc |-> "none", value |-> val]
Raise(s, e) == [self |-> s, exc |-> e, value |-> PyNone]

\* The composed generator before initializeGenerator has run.
NoGenerator ==
    [seed |-> 0, minValue |-> 0, maxValue |-> 0, bitsize |-> 0,
     naughtyStrings |-> PyNone, endchar |-> "", cursor |-> 0]

\* The object before __init__ has run.
NoMutator ==
    [seed |-> 0, currentState |-> 0, counterMax |-> 0, currentCounter |-> 0,
     naughtyStrings |-> PyNone, generator |-> NoGenerator]

\* ----------------------------------------------------------- Mutator.py
\* Mutator.__init__(seed, counterMax)
Mutator_init(s, seed, counterMax) ==
    [s EXCEPT !.seed = seed,
              !.currentState = 0,
              !.counterMax = counterMax,
              !.currentCounter = 0]

\* @typeCheck(int): the wrapped setter runs only for an integer argument.
typeCheck_int(value) == IsInt(value)

\* A variant of updateSeed that also restarts the counter.
Mutator_updateSeed_restartsCounter(s, value) ==
    IF ~typeCheck_int(value)
    THEN Raise(s, "TypeError")
    ELSE Return([s EXCEPT !.seed = value.v, !.currentCounter = 0], PyNone)

\* Mutator.updateSeed(seedValue)
Mutator_updateSeed(s, value) ==
    IF ~typeCheck_int(value)
    THEN Raise(s, "TypeError")
    ELSE Return([s EXCEPT !.seed = value.v], PyNone)

\* A variant of the currentState setter that counts the call against the
\* budget.
Mutator_currentState_set_countsCall(s, value) ==
    IF ~typeCheck_int(value)
    THEN Raise(s, "TypeError")
    ELSE Return([s EXCEPT !.currentState = value.v, !.currentCounter = @ + 1],
                PyNone)

\* Mutator.currentState = stateValue
Mutator_currentState_set(s, value) ==
    IF ~typeCheck_int(value)
    THEN Raise(s, "TypeError")
    ELSE Return([s EXCEPT !.currentState = value.v], PyNone)

\* A variant of the counterMax setter that also restarts the counter.
Mutator_counterMax_set_restartsCounter(s, value) ==
    IF ~typeCheck_int(value)
    THEN Raise(s, "TypeError")
    ELSE Return([s EXCEPT !.counterMax = value.v, !.currentCounter = 0], PyNone)

\* Mutator.counterMax = counterMaxValue
Mutator_counterMax_set(s, value) ==
    IF ~typeCheck_int(value)
    THEN Raise(s, "TypeError")
    ELSE Return([s EXCEPT !.counterMax = value.v], PyNone)

\* Mutator.resetCurrentCounter()
Mutator_resetCurrentCounter(s) ==
    Return([s EXCEPT !.currentCounter = 0], PyNone)

\* A variant of reset that also restores the default seed.
Mutator_reset_reseeds(s) ==
    Return([s EXCEPT !.currentCounter = 0, !.seed = SEED_DEFAULT], PyNone)

\* A variant of reset that also rewinds the generator to its first value.
Mutator_reset_rewindsGenerator(s) ==
    Return([s EXCEPT !.currentCounter = 0, !.generator.cursor = 0], PyNone)

\* Mutator.reset()
Mutator_reset(s) ==
    Return([s EXCEPT !.currentCounter = 0], PyNone)

\* A variant of generate whose budget check is off by one.
Mutator_generate_offByOne(s) ==
    IF s.currentCounter > s.counterMax
    THEN Raise(s, "MaxMutationCounterReached")
    ELSE Return([s EXCEPT !.currentCounter = @ + 1], PyNone)

\* Mutator.generate(): the budget check, then the increment.
Mutator_generate(s) ==
    IF s.currentCounter >= s.counterMax
    THEN Raise(s, "MaxMutationCounterReached")
    ELSE Return([s EXCEPT !.currentCounter = @ + 1], PyNone)

\* ----------------------------------------------------- DomainMutator.py
\* DomainMutator.__init__(domain, mode, generator, seed, counterMax): binds
\* the mutator to the field domain and runs the base constructor.
DomainMutator_init(s, seed, counterMax) == Mutator_init(s, seed, counterMax)

\* DomainMutator.generate(): the base budget check.
DomainMutator_generate(s) == Mutator_generate(s)

\* ------------------------------------------------------ generator layer
\* GeneratorFactory.buildGenerator(NG_determinist, seed, minValue, maxValue,
\* bitsize, signed=False): the length generator, cursor at its first value.
GeneratorFactory_buildGenerator(seed, minValue, maxValue, bitsize) ==
    [seed |-> seed, minValue |-> minValue, maxValue |-> maxValue,
     bitsize |-> bitsize, naughtyStrings |-> PyNone, endchar |-> "",
     cursor |-> 0]

\* StringPaddedGenerator(lengthGenerator, naughtyStrings, endchar)
StringPaddedGenerator_init(lengthGenerator, naughtyStrings, endchar) ==
    [lengthGenerator EXCEPT !.naughtyStrings = naughtyStrings,
                            !.endchar = endchar]

Min2(a, b) == IF a <= b THEN a ELSE b
Max2(a, b) == IF a >= b THEN a ELSE b

\* DeterministGenerator: the i-th value over [minValue, maxValue]: first the
\* boundary values minValue, minValue+1, maxValue-1, maxValue (kept between
\* the two bounds), then a walk over the interval that starts at the seed.
DeterministGenerator_value(g, i) ==
    LET lo == g.minValue
        hi == g.maxValue
        boundary == <<lo, Min2(lo + 1, hi), Max2(hi - 1, lo), hi>>
    IN  IF i < 4 \/ hi < lo
        THEN boundary[(i % 4) + 1]
        ELSE lo + ((g.seed + i) % (hi - lo + 1))

\* next(StringPaddedGenerator): a byte string padded or trimmed to the length
\* the length generator selects; the cursor moves on by one.
StringPaddedGenerator_next(g) ==
    [generator |-> [g EXCEPT !.cursor = @ + 1],
     value |-> [t |-> "bytes", v |-> DeterministGenerator_value(g, g.cursor),
                elems |-> <<>>]]

\* String.decode(value, unitSize, endianness, sign): the decoded string
\* holds the bytes it was given.
String_decode(value) == [value EXCEPT !.t = "str"]

\* ----------------------------------------------------- StringMutator.py
\* max(a, b) and min(a, b) raise TypeError unless both operands are ordered
\* (None is not comparable with an integer).
PyCompareRaises(a, b) == ~(IsInt(a) /\ IsInt(b))
PyMax(a, b) == IF b.v > a.v THEN b ELSE a
PyMin(a, b) == IF b.v < a.v THEN b ELSE a

\* A variant of the naughtyStrings setter that falls back for None only.
StringMutator_naughtyStrings_set_noneOnly(s, value) ==
    IF value.t = "None"
    THEN Return([s EXCEPT !.naughtyStrings = DEFAULT_NAUGHTY_STRINGS], PyNone)
    ELSE Return([s EXCEPT !.naughtyStrings = value], PyNone)

\* StringMutator.naughtyStrings = naughtyStrings
StringMutator_naughtyStrings_set(s, value) ==
    IF value.t # "list"
    THEN Return([s EXCEPT !.naughtyStrings = DEFAULT_NAUGHTY_STRINGS], PyNone)
    ELSE Return([s EXCEPT !.naughtyStrings = value], PyNone)

\* The (minLength, maxLength) that initializeGenerator resolves, as an
\* outcome whose value is the pair; TypeError when max()/min() compare None
\* with an integer.
ResolveLengths(s, dom_size, interval) ==
    LET valid == IsIntPair(interval)
        minLength0 == IF valid THEN interval.elems[1] ELSE PyNone
        maxLength0 == IF valid THEN interval.elems[2] ELSE PyNone
        finite == IsIntPair(dom_size)
        domMin == IF finite THEN PyInt(IntDiv8(dom_size.elems[1].v)) ELSE PyNone
        domMax == IF finite THEN PyInt(IntDiv8(dom_size.elems[2].v)) ELSE PyNone
    IN  IF finite /\ (PyCompareRaises(minLength0, domMin)
                      \/ PyCompareRaises(maxLength0, domMax))
        THEN Raise(s, "TypeError")
        ELSE LET minLength1 == IF finite THEN PyMax(minLength0, domMin)
                                         ELSE minLength0
                 maxLength1 == IF finite THEN PyMin(maxLength0, domMax)
                                         ELSE maxLength0
             IN  IF minLength1.t = "None" \/ maxLength1.t = "None"
                 THEN Return(s, PyTuple(<<PyInt(DEFAULT_MIN_LENGTH),
                                          PyInt(DEFAULT_MAX_LENGTH)>>))
                 ELSE Return(s, PyTuple(<<minLength1, maxLength1>>))

\* StringMutator.initializeGenerator(interval, lengthBitSize, endchar)
StringMutator_initializeGenerator(s, dom_size, interval, lengthBitSize, endchar) ==
    LET r == ResolveLengths(s, dom_size, interval)
    IN  IF r.exc # "none"
        THEN r
        ELSE LET lengthGenerator ==
                     GeneratorFactory_buildGenerator(s.seed,
                                                     r.value.elems[1].v,
                                                     r.value.elems[2].v,
                                                     lengthBitSize)
             IN  Return([s EXCEPT !.generator =
                            StringPaddedGenerator_init(lengthGenerator,
                                                       s.naughtyStrings,
                                                       endchar)],
                        PyNone)

\* StringMutator.__init__(domain, seed, counterMax, endchar, interval,
\* lengthBitSize, naughtyStrings): an exception leaves no object behind.
StringMutator_init(dom_size, seed, counterMax, endchar, interval, lengthBitSize, naughtyStrings) ==
    LET s1 == DomainMutator_init(NoMutator, seed, counterMax)
        s2 == StringMutator_naughtyStrings_set(s1, naughtyStrings).self
        r == StringMutator_initializeGenerator(s2, dom_size, interval,
                                               lengthBitSize, endchar)
    IN  IF r.exc # "none" THEN Raise(NoMutator, r.exc) ELSE r

\* A variant of StringMutator.generate that pulls the value before the
\* budget check.
StringMutator_generate_pullsFirst(s) ==
    LET n == StringPaddedGenerator_next(s.generator)
        r == DomainMutator_generate([s EXCEPT !.generator = n.generator])
    IN  IF r.exc # "none"
        THEN r
        ELSE Return(r.self, String_decode(n.value))

\* A variant of StringMutator.generate that reads the sequence at the
\* position of the budget counter.
StringMutator_generate_indexByCounter(s) ==
    LET r == DomainMutator_generate(s)
    IN  IF r.exc # "none"
        THEN r
        ELSE LET n == StringPaddedGenerator_next(
                          [s.generator EXCEPT !.cursor = s.currentCounter])
             IN  Return([r.self EXCEPT !.generator.cursor = @ + 1],
                        String_decode(n.value))

\* StringMutator.generate()
StringMutator_generate(s) ==
    LET r == DomainMutator_generate(s)
    IN  IF r.exc # "none"
        THEN r
        ELSE LET n == StringPaddedGenerator_next(r.self.generator)
             IN  Return([r.self EXCEPT !.generator = n.generator],
                        String_decode(n.value))

\* A variant of mutate that counts the call against the budget.
StringMutator_mutate_countsCall(s, data) ==
    Raise([s EXCEPT !.currentCounter = @ + 1], "NotImplementedError")

\* StringMutator.mutate(data)
StringMutator_mutate(s, data) == Raise(s, "NotImplementedError")

\* ------------------------------------------------------------ the state
VARIABLES
    self,          \* the StringMutator under test (NoMutator before __init__)
    dom_size,      \* self.domain.dataType.size of the field domain
    args,          \* the arguments the constructor is called with
    status,        \* "unbuilt", "ok", or the exception __init__ raised
    lastOp,        \* the last call made
    lastArg,       \* its argument
    lastResult,    \* "none" or the exception it raised
    lastValue,     \* the value it returned
    okSinceReset,  \* successful generate() calls since __init__ or a reset
    reconfigured,  \* the counterMax setter has been applied since __init__
    exhausted,     \* "yes" once generate() failed, "raised" once counterMax
                   \* was then set above currentCounter, "no" after a reset
    wasReset,      \* reset() or resetCurrentCounter() has been called
    relation,      \* the hash relation under test (NoRelation before __init__)
    firstCall,     \* the first relationOperation call: its buffer and result
    pair,          \* two mutators A and B attached to two fields
    hist,          \* per mutator, the calls made on it and their outcomes
    effects        \* what a loadFromXML call has done, in order

\* What the calls on the single mutator under test leave alone.
others == <<relation, firstCall, pair, hist, effects>>

vars == <<self, dom_size, args, status, lastOp, lastArg, lastResult,
          lastValue, okSinceReset, reconfigured, exhausted, wasReset,
          relation, firstCall, pair, hist, effects>>

COUNTER_MAX_DEFAULT == 65536

\* ------------------------------------------------------- the inputs drawn
PyFloat(n) == [t |-> "float", v |-> n, elems |-> <<>>]
NonIntValues == {PyNone, PyStr(1), PyFloat(1)}
SeedValues == {PyInt(SEED_DEFAULT), PyInt(SEED_DEFAULT + 1)} \cup NonIntValues
StateValues == {PyInt(0), PyInt(1)} \cup NonIntValues
CounterMaxValues == {PyInt(n) : n \in -1..MaxCounterMax} \cup NonIntValues
DataValues == {PyNone, PyStr(1)}

Pair(a, b) == PyTuple(<<PyInt(a), PyInt(b)>>)
UnsetPair == PyTuple(<<PyNone, PyNone>>)

\* Field(String(nbChars=(35, 60))): 35 to 60 characters of 8 bits.
DocDomainSize == Pair(280, 480)
DocInterval == Pair(10, 600)

WellFormedIntervals ==
    {UnsetPair, DocInterval, Pair(1, 2), Pair(40, 50), Pair(50, 100)}
MalformedIntervals ==
    {PyInt(5), PyNone, PyTuple(<<PyInt(10)>>),
     PyTuple(<<PyInt(10), PyInt(20), PyInt(30)>>),
     PyTuple(<<PyInt(10), PyStr(1)>>), PyTuple(<<PyNone, PyInt(20)>>),
     PyList(<<PyInt(10), PyInt(600)>>)}
DomainSizes == {DocDomainSize, Pair(12, 20), UnsetPair, PyTuple(<<PyInt(0), PyNone>>)}
NaughtyValues ==
    {PyNone, PyInt(7), PyList(<<PyStr(1), PyStr(2)>>),
     PyList(<<>>), PyTuple(<<PyStr(1), PyStr(2)>>), PyStr(3)}

\* The relation before __init__ has run, and before its first evaluation.
NoRelation == [varType |-> "", targets |-> <<>>, dataType |-> PyNone]
NoFirstCall == [msg |-> <<>>, value |-> PyNone, made |-> FALSE, between |-> FALSE]

NoCall ==
    /\ self = NoMutator
    /\ status = "unbuilt"
    /\ lastOp = "none"
    /\ lastArg = PyNone
    /\ lastResult = "none"
    /\ lastValue = PyNone
    /\ okSinceReset = 0
    /\ reconfigured = FALSE
    /\ exhausted = "no"
    /\ wasReset = FALSE
    /\ relation = NoRelation
    /\ firstCall = NoFirstCall
    /\ pair = [A |-> NoMutator, B |-> NoMutator]
    /\ hist = [A |-> <<>>, B |-> <<>>]
    /\ effects = <<>>

\* The documented configuration, with every budget up to MaxCounterMax.
Init ==
    /\ NoCall
    /\ dom_size = DocDomainSize
    /\ args \in [seed : {SEED_DEFAULT}, counterMax : 0..MaxCounterMax,
                 interval : {DocInterval}, naughtyStrings : {PyNone}]

\* Every combination of interval, domain size and dictionary, with the
\* default budget.
InitConstruct ==
    /\ NoCall
    /\ dom_size \in DomainSizes
    /\ args \in [seed : {SEED_DEFAULT, SEED_DEFAULT + 1},
                 counterMax : {COUNTER_MAX_DEFAULT},
                 interval : WellFormedIntervals \cup MalformedIntervals,
                 naughtyStrings : NaughtyValues]

\* ------------------------------------------------------------ the calls
Observe(op, arg, r) ==
    /\ self' = r.self
    /\ lastOp' = op
    /\ lastArg' = arg
    /\ lastResult' = r.exc
    /\ lastValue' = r.value

\* mutator = StringMutator(domain, seed=, counterMax=, interval=, naughtyStrings=)
Construct ==
    /\ status = "unbuilt"
    /\ LET r == StringMutator_init(dom_size, args.seed, args.counterMax,
                                   DEFAULT_END_CHAR, args.interval, SIZE_8,
                                   args.naughtyStrings)
       IN  /\ Observe("__init__", args.interval, r)
           /\ status' = IF r.exc = "none" THEN "ok" ELSE r.exc
    /\ UNCHANGED <<others, dom_size, args, okSinceReset, reconfigured, exhausted, wasReset>>

\* mutator.generate()
Call_generate ==
    /\ status = "ok"
    /\ LET r == StringMutator_generate(self)
       IN  /\ r.exc = "none" => self.generator.cursor < MaxCursor
           /\ Observe("generate", PyNone, r)
           /\ okSinceReset' = IF r.exc = "none" THEN okSinceReset + 1
                                                ELSE okSinceReset
           /\ exhausted' = IF r.exc = "none" THEN exhausted ELSE "yes"
    /\ UNCHANGED <<others, dom_size, args, status, reconfigured, wasReset>>

\* mutator.mutate(data)
Call_mutate ==
    /\ status = "ok"
    /\ \E data \in DataValues :
           Observe("mutate", data, StringMutator_mutate(self, data))
    /\ UNCHANGED <<others, dom_size, args, status, okSinceReset, reconfigured,
                   exhausted, wasReset>>

\* mutator.reset()
Call_reset ==
    /\ status = "ok"
    /\ Observe("reset", PyNone, Mutator_reset(self))
    /\ okSinceReset' = 0
    /\ exhausted' = "no"
    /\ wasReset' = TRUE
    /\ UNCHANGED <<others, dom_size, args, status, reconfigured>>

\* mutator.resetCurrentCounter()
Call_resetCurrentCounter ==
    /\ status = "ok"
    /\ Observe("resetCurrentCounter", PyNone, Mutator_resetCurrentCounter(self))
    /\ okSinceReset' = 0
    /\ exhausted' = "no"
    /\ wasReset' = TRUE
    /\ UNCHANGED <<others, dom_size, args, status, reconfigured>>

\* mutator.updateSeed(value)
Call_updateSeed ==
    /\ status = "ok"
    /\ \E value \in SeedValues :
           Observe("updateSeed", value, Mutator_updateSeed(self, value))
    /\ UNCHANGED <<others, dom_size, args, status, okSinceReset, reconfigured,
                   exhausted, wasReset>>

\* mutator.currentState = value
Call_currentState_set ==
    /\ status = "ok"
    /\ \E value \in StateValues :
           Observe("currentState", value, Mutator_currentState_set(self, value))
    /\ UNCHANGED <<others, dom_size, args, status, okSinceReset, reconfigured,
                   exhausted, wasReset>>

\* mutator.counterMax = value
Call_counterMax_set ==
    /\ status = "ok"
    /\ \E value \in CounterMaxValues :
           LET r == Mutator_counterMax_set(self, value)
           IN  /\ Observe("counterMax", value, r)
               /\ reconfigured' = (reconfigured \/ r.exc = "none")
               /\ exhausted' = IF /\ r.exc = "none"
                                  /\ exhausted = "yes"
                                  /\ value.v > self.currentCounter
                               THEN "raised"
                               ELSE exhausted
    /\ UNCHANGED <<others, dom_size, args, status, okSinceReset, wasReset>>

\* mutator.naughtyStrings = value
Call_naughtyStrings_set ==
    /\ status = "ok"
    /\ \E value \in NaughtyValues :
           Observe("naughtyStrings", value,
                   StringMutator_naughtyStrings_set(self, value))
    /\ UNCHANGED <<others, dom_size, args, status, okSinceReset, reconfigured,
                   exhausted, wasReset>>

\* The lifecycle of one mutator built from the documented configuration.
Next ==
    \/ Construct
    \/ Call_generate
    \/ Call_mutate
    \/ Call_reset
    \/ Call_resetCurrentCounter
    \/ Call_updateSeed
    \/ Call_currentState_set
    \/ Call_counterMax_set

Spec == Init /\ [][Next]_vars

\* Construction over every configuration, then generation.
NextConstruct ==
    \/ Construct
    \/ Call_generate
    \/ Call_mutate
    \/ Call_naughtyStrings_set

SpecConstruct == InitConstruct /\ [][NextConstruct]_vars

\* =================================================================
\* Properties of the Mutator lifecycle (checked under Spec)
\* =================================================================
BudgetExhausted == "MaxMutationCounterReached"

\* C1: Budget enforcement. While counterMax is the N given to the
\* constructor, a generate() call succeeds only as one of the first N since
\* construction or since the last reset, and it fails only when exactly N
\* have succeeded since then, and then with the budget-exhausted exception.
C1_BudgetEnforcement ==
    (status = "ok" /\ ~reconfigured /\ lastOp = "generate") =>
        IF lastResult = "none"
        THEN okSinceReset <= args.counterMax
        ELSE lastResult = BudgetExhausted /\ okSinceReset = args.counterMax

\* C1 witness: N >= 1 values, a reset, N more values, and then a failure.
C1_Witness ==
    /\ lastOp = "generate"
    /\ lastResult = BudgetExhausted
    /\ ~reconfigured
    /\ wasReset
    /\ args.counterMax >= 1
    /\ okSinceReset = args.counterMax
    /\ self.generator.cursor = 2 * args.counterMax

\* C2: a generate() call made at currentCounter >= counterMax fails with
\* budget-exhausted and changes nothing: neither seed, currentState,
\* counterMax, currentCounter nor the composed generator's cursor.
C2_CheckBeforeProduction ==
    [][(status = "ok" /\ lastOp' = "generate"
            /\ self.currentCounter >= self.counterMax)
        => (lastResult' = BudgetExhausted /\ self' = self)]_vars

\* C2 witness: a failed generate() on a mutator that has produced values.
C2_Witness ==
    /\ lastOp = "generate"
    /\ lastResult = BudgetExhausted
    /\ self.generator.cursor > 0
    /\ self.currentCounter = self.counterMax

\* C3 as stated: once generate() has failed, every generate() fails until
\* reset() or resetCurrentCounter(), whatever else is called in between
\* (the counterMax setter included).
C3_ExhaustedUntilReset ==
    (exhausted \in {"yes", "raised"} /\ lastOp = "generate")
        => lastResult = BudgetExhausted

\* C3 amended: once generate() has failed, every generate() fails until
\* reset() or resetCurrentCounter() is called or counterMax is set above
\* currentCounter; updateSeed, the currentState setter, mutate and a
\* counterMax not above currentCounter do not make generate() succeed.
C3_ExhaustedUntilResetOrRaise ==
    (exhausted = "yes" /\ lastOp = "generate") => lastResult = BudgetExhausted

\* C3 witness: still failing after the seed, the state and counterMax were
\* all set on the exhausted mutator's way.
C3_Witness ==
    /\ exhausted = "yes"
    /\ lastOp = "generate"
    /\ lastResult = BudgetExhausted
    /\ reconfigured
    /\ self.seed # args.seed
    /\ self.currentState # 0

\* C4: reset() and resetCurrentCounter() each return normally, set
\* currentCounter to 0 and leave every other attribute alone; in every state
\* the two have the same effect.
C4_ResetFrame ==
    [][/\ status = "ok" =>
              Mutator_reset(self).self = Mutator_resetCurrentCounter(self).self
       /\ (status = "ok" /\ lastOp' \in {"reset", "resetCurrentCounter"}) =>
              /\ lastResult' = "none"
              /\ self' = [self EXCEPT !.currentCounter = 0]]_vars

\* C4 witness: a reset of an exhausted mutator whose seed was changed.
C4_Witness ==
    /\ lastOp = "reset"
    /\ self.currentCounter = 0
    /\ self.generator.cursor >= self.counterMax
    /\ self.counterMax >= 1
    /\ self.seed # args.seed

\* C5: each validated setter rejects a non-integer with TypeError and then
\* changes nothing; with an integer it returns normally and changes its own
\* attribute only.
C5_ValidatedSetters ==
    [][(status = "ok" /\ lastOp' \in {"updateSeed", "currentState", "counterMax"})
        => IF ~IsInt(lastArg')
           THEN lastResult' = "TypeError" /\ self' = self
           ELSE /\ lastResult' = "none"
                /\ lastOp' = "updateSeed" =>
                       self' = [self EXCEPT !.seed = lastArg'.v]
                /\ lastOp' = "currentState" =>
                       self' = [self EXCEPT !.currentState = lastArg'.v]
                /\ lastOp' = "counterMax" =>
                       self' = [self EXCEPT !.counterMax = lastArg'.v]]_vars

\* C5 witness: a rejected counterMax on a mutator that has produced values.
C5_Witness ==
    /\ lastOp = "counterMax"
    /\ lastArg = PyNone
    /\ lastResult = "TypeError"
    /\ self.currentCounter > 0

DomainBytes == <<dom_size.elems[1].v \div 8, dom_size.elems[2].v \div 8>>

\* The bounds C6 describes: the intersection of the caller interval and the
\* domain's byte bounds, the caller interval when the domain is not finite,
\* the defaults when neither gives a bound.
C6_ExpectedBounds ==
    LET given == IsIntPair(args.interval)
        finite == IsIntPair(dom_size)
    IN  IF finite
        THEN <<IF given THEN Max2(args.interval.elems[1].v, DomainBytes[1])
                        ELSE DomainBytes[1],
               IF given THEN Min2(args.interval.elems[2].v, DomainBytes[2])
                        ELSE DomainBytes[2]>>
        ELSE IF given
             THEN <<args.interval.elems[1].v, args.interval.elems[2].v>>
             ELSE <<DEFAULT_MIN_LENGTH, DEFAULT_MAX_LENGTH>>

\* C6: for a caller interval that is a pair of integers or unset, whatever
\* the domain size, construction succeeds and hands the length generator
\* the bounds described above.
C6_BoundsResolved ==
    (status # "unbuilt" /\ args.interval \in WellFormedIntervals) =>
        /\ status = "ok"
        /\ <<self.generator.minValue, self.generator.maxValue>> = C6_ExpectedBounds

\* Whether a byte length lies in the caller interval (when one is given) and
\* in the domain's byte bounds (when they are finite).
InIntersection(n) ==
    /\ IsIntPair(args.interval) =>
           (args.interval.elems[1].v <= n /\ n <= args.interval.elems[2].v)
    /\ IsIntPair(dom_size) => (DomainBytes[1] <= n /\ n <= DomainBytes[2])

\* C7: every value generate() returns has a byte length inside the
\* intersection of the caller interval and the domain's byte bounds.
C7_LengthContainment ==
    (lastOp = "generate" /\ lastResult = "none") => InIntersection(lastValue.v)

\* C8: construction with a malformed interval fails.
C8_MalformedIntervalRejected ==
    (status # "unbuilt" /\ args.interval \in MalformedIntervals) => status # "ok"

\* The value the naughtyStrings setter was last given, by __init__ or by an
\* assignment.
NaughtyGiven == IF lastOp = "__init__" THEN args.naughtyStrings ELSE lastArg

\* C9 as stated: a non-sequence gives the default dictionary and never an
\* error, a sequence of strings (a list or a tuple) is kept as given, and
\* the constructor hands the stored dictionary to the composed generator.
C9_SequenceKept ==
    (status = "ok" /\ lastOp \in {"__init__", "naughtyStrings"}) =>
        /\ lastResult = "none"
        /\ self.naughtyStrings = IF NaughtyGiven.t \in {"list", "tuple"}
                                 THEN NaughtyGiven
                                 ELSE DEFAULT_NAUGHTY_STRINGS
        /\ lastOp = "__init__" => self.generator.naughtyStrings = self.naughtyStrings

\* C9 amended: a value that is not a list (None, an integer, a string, and
\* also a tuple of strings) gives the default dictionary and never an error,
\* a list is kept as given, and the constructor hands the stored dictionary
\* to the composed generator.
C9_ListKept ==
    (status = "ok" /\ lastOp \in {"__init__", "naughtyStrings"}) =>
        /\ lastResult = "none"
        /\ self.naughtyStrings = IF NaughtyGiven.t = "list"
                                 THEN NaughtyGiven
                                 ELSE DEFAULT_NAUGHTY_STRINGS
        /\ lastOp = "__init__" => self.generator.naughtyStrings = self.naughtyStrings

\* C9 witness: a mutator built with naughtyStrings=7 works with the default
\* dictionary.
C9_Witness ==
    /\ status = "ok"
    /\ lastOp = "__init__"
    /\ args.naughtyStrings = PyInt(7)
    /\ self.naughtyStrings = DEFAULT_NAUGHTY_STRINGS
    /\ self.generator.naughtyStrings = DEFAULT_NAUGHTY_STRINGS

\* =================================================================
\* The hash relations (Hash.py, Hashes/SHA2_512.py)
\* =================================================================
\* A bit buffer is a sequence of 0/1, a byte buffer a sequence of 0..255.
PyBits(bits) == [t |-> "bitarray", v |-> 0, elems |-> bits]
PyBytes(bytes) == [t |-> "bytes", v |-> 0, elems |-> bytes]

\* bitarray.tobytes() of a big-endian bitarray: the buffer is filled with
\* zero bits up to a whole byte, each byte has its first bit as its most
\* significant one.
bitarray_tobytes(bits) ==
    LET n == (Len(bits) + 7) \div 8
        bit(i) == IF i <= Len(bits) THEN bits[i] ELSE 0
    IN  [k \in 1..n |->
            LET o == 8 * (k - 1)
            IN  128 * bit(o + 1) + 64 * bit(o + 2) + 32 * bit(o + 3)
                + 16 * bit(o + 4) + 8 * bit(o + 5) + 4 * bit(o + 6)
                + 2 * bit(o + 7) + bit(o + 8)]

\* bitarray(endian='big').frombytes(data): eight bits per byte, the most
\* significant bit first.
bitarray_frombytes(bytes) ==
    [i \in 1..(8 * Len(bytes)) |->
        (bytes[((i - 1) \div 8) + 1] \div (2 ^ (7 - ((i - 1) % 8)))) % 2]

\* hashlib: the digests of the byte buffers the model evaluates, as the
\* library computes them.
hashlib_digest_of(name, data) ==
    CASE name = "md5" /\ data = <<>> ->
              <<212, 29, 140, 217, 143, 0, 178, 4, 233, 128, 9, 152, 236, 248,
              66, 126>>
      [] name = "md5" /\ data = <<170>> ->
              <<159, 224, 247, 36, 74, 125, 161, 211, 245, 179, 210, 31, 155,
              30, 30, 168>>
      [] name = "md5" /\ data = <<128>> ->
              <<141, 57, 221, 126, 239, 17, 94, 166, 151, 84, 70, 239, 64, 130,
              149, 31>>
      [] name = "md5" /\ data = <<170, 187>> ->
              <<88, 206, 161, 246, 178, 176, 101, 32, 97, 62, 9, 175, 144, 220,
              28, 71>>
      [] name = "md5" /\ data = <<187, 170>> ->
              <<250, 249, 223, 124, 224, 93, 143, 161, 240, 79, 40, 173, 14,
              199, 167, 215>>
      [] name = "md5" /\ data = <<170, 160>> ->
              <<90, 23, 148, 212, 252, 240, 177, 54, 79, 204, 236, 22, 40, 91,
              57, 41>>
      [] name = "sha1" /\ data = <<>> ->
              <<218, 57, 163, 238, 94, 107, 75, 13, 50, 85, 191, 239, 149, 96,
              24, 144, 175, 216, 7, 9>>
      [] name = "sha1" /\ data = <<170>> ->
              <<82, 83, 138, 128, 9, 79, 123, 98, 148, 143, 211, 30, 104, 253,
              23, 163, 21, 216, 220, 145>>
      [] name = "sha1" /\ data = <<128>> ->
              <<199, 142, 189, 60, 133, 163, 154, 89, 109, 159, 92, 253, 43,
              141, 36, 11, 193, 185, 193, 37>>
      [] name = "sha1" /\ data = <<170, 187>> ->
              <<101, 177, 227, 81, 166, 203, 254, 180, 28, 146, 114, 34, 188,
              158, 245, 58, 173, 51, 150, 176>>
      [] name = "sha1" /\ data = <<187, 170>> ->
              <<110, 64, 23, 129, 184, 14, 232, 85, 42, 187, 168, 91, 111, 11,
              215, 18, 107, 11, 242, 166>>
      [] name = "sha1" /\ data = <<170, 160>> ->
              <<145, 23, 48, 91, 55, 185, 83, 182, 75, 243, 147, 130, 97, 171,
              211, 159, 204, 54, 83, 166>>
      [] name = "sha224" /\ data = <<>> ->
              <<209, 74, 2, 140, 42, 58, 43, 201, 71, 97, 2, 187, 40, 130, 52,
              196, 21, 162, 176, 31, 130, 142, 166, 42, 197, 179,
              228, 47>>
      [] name = "sha224" /\ data = <<170>> ->
              <<56, 144, 126, 119, 152, 240, 158, 53, 221, 226, 58, 151, 141,
              134, 243, 250, 236, 110, 177, 11, 54, 70, 191, 226,
              233, 179, 75, 36>>
      [] name = "sha224" /\ data = <<128>> ->
              <<197, 150, 51, 188, 71, 158, 125, 163, 49, 141, 159, 96, 58, 251,
              28, 73, 65, 149, 229, 225, 22, 48, 202, 192, 227,
              109, 55, 88>>
      [] name = "sha224" /\ data = <<170, 187>> ->
              <<107, 20, 163, 25, 236, 54, 10, 245, 187, 198, 158, 234, 43, 251,
              58, 126, 242, 120, 112, 94, 116, 44, 91, 29, 209,
              193, 18, 57>>
      [] name = "sha224" /\ data = <<187, 170>> ->
              <<59, 211, 150, 169, 147, 18, 167, 206, 107, 198, 147, 7, 214,
              146, 170, 36, 180, 155, 157, 178, 75, 11, 187, 5,
              193, 153, 194, 251>>
      [] name = "sha224" /\ data = <<170, 160>> ->
              <<55, 104, 149, 247, 92, 203, 4, 13, 12, 135, 183, 83, 66, 94,
              182, 112, 6, 117, 250, 176, 65, 150, 188, 129, 182,
              77, 249, 84>>
      [] name = "sha256" /\ data = <<>> ->
              <<227, 176, 196, 66, 152, 252, 28, 20, 154, 251, 244, 200, 153,
              111, 185, 36, 39, 174, 65, 228, 100, 155, 147, 76,
              164, 149, 153, 27, 120, 82, 184, 85>>
      [] name = "sha256" /\ data = <<170>> ->
              <<188, 238, 246, 85, 181, 160, 52, 145, 31, 28, 55, 24, 206, 5,
              101, 49, 180, 94, 240, 59, 76, 123, 31, 21, 98, 158,
              134, 114, 148, 1, 26, 125>>
      [] name = "sha256" /\ data = <<128>> ->
              <<118, 190, 139, 82, 141, 0, 117, 247, 170, 233, 141, 111, 165,
              122, 109, 60, 131, 174, 72, 10, 132, 105, 230, 104,
              215, 176, 175, 150, 137, 149, 172, 113>>
      [] name = "sha256" /\ data = <<170, 187>> ->
              <<215, 152, 209, 250, 198, 189, 75, 177, 193, 31, 80, 49, 39, 96,
              53, 16, 19, 55, 154, 10, 182, 240, 168, 192, 175,
              138, 80, 107, 150, 178, 82, 90>>
      [] name = "sha256" /\ data = <<187, 170>> ->
              <<143, 124, 176, 2, 163, 171, 252, 142, 37, 124, 117, 179, 62,
              149, 211, 5, 167, 151, 111, 246, 83, 69, 1, 116,
              226, 115, 228, 156, 244, 224, 94, 176>>
      [] name = "sha256" /\ data = <<170, 160>> ->
              <<103, 171, 12, 90, 139, 118, 211, 41, 55, 28, 172, 180, 127, 64,
              244, 126, 60, 102, 94, 51, 93, 134, 241, 179, 185,
              240, 108, 234, 174, 158, 182, 181>>
      [] name = "sha384" /\ data = <<>> ->
              <<56, 176, 96, 167, 81, 172, 150, 56, 76, 217, 50, 126, 177, 177,
              227, 106, 33, 253, 183, 17, 20, 190, 7, 67, 76, 12,
              199, 191, 99, 246, 225, 218, 39, 78, 222, 191, 231,
              111, 101, 251, 213, 26, 210, 241, 72, 152, 185, 91>>
      [] name = "sha384" /\ data = <<170>> ->
              <<176, 171, 105, 4, 15, 164, 48, 228, 244, 5, 185, 20, 184, 144,
              46, 155, 130, 218, 238, 223, 91, 174, 92, 39, 156,
              99, 132, 61, 145, 200, 231, 221, 5, 12, 251, 8, 171,
              101, 115, 162, 39, 29, 149, 79, 159, 158, 28, 251>>
      [] name = "sha384" /\ data = <<128>> ->
              <<141, 182, 48, 179, 3, 111, 64, 226, 154, 164, 201, 94, 60, 1,
              86, 245, 90, 89, 59, 240, 5, 252, 66, 89, 54, 210,
              19, 74, 79, 192, 184, 85, 187, 74, 180, 118, 125,
              212, 176, 177, 221, 38, 28, 209, 17, 89, 141, 61>>
      [] name = "sha384" /\ data = <<170, 187>> ->
              <<15, 18, 196, 7, 169, 112, 16, 185, 116, 215, 224, 142, 75, 30,
              69, 47, 83, 54, 193, 78, 234, 48, 92, 12, 132, 164,
              29, 24, 16, 201, 177, 203, 31, 113, 178, 78, 177,
              84, 182, 21, 42, 10, 226, 212, 254, 87, 29, 88>>
      [] name = "sha384" /\ data = <<187, 170>> ->
              <<185, 184, 178, 14, 237, 135, 236, 247, 172, 202, 226, 68, 246,
              115, 126, 113, 127, 227, 135, 220, 162, 223, 89,
              252, 211, 234, 186, 116, 108, 127, 92, 174, 102,
              179, 206, 28, 202, 182, 132, 215, 112, 184, 232,
              207, 175, 183, 143, 189>>
      [] name = "sha384" /\ data = <<170, 160>> ->
              <<168, 120, 210, 204, 87, 146, 103, 123, 18, 25, 169, 135, 167,
              173, 184, 137, 156, 210, 246, 157, 19, 151, 23, 159,
              182, 220, 17, 168, 193, 181, 165, 78, 67, 22, 150,
              181, 163, 14, 98, 159, 124, 202, 126, 140, 75, 134,
              84, 117>>
      [] name = "sha512" /\ data = <<>> ->
              <<207, 131, 225, 53, 126, 239, 184, 189, 241, 84, 40, 80, 214,
              109, 128, 7, 214, 32, 228, 5, 11, 87, 21, 220, 131,
              244, 169, 33, 211, 108, 233, 206, 71, 208, 209, 60,
              93, 133, 242, 176, 255, 131, 24, 210, 135, 126, 236,
              47, 99, 185, 49, 189, 71, 65, 122, 129, 165, 56, 50,
              122, 249, 39, 218, 62>>
      [] name = "sha512" /\ data = <<170>> ->
              <<30, 71, 247, 36, 203, 108, 34, 248, 124, 165, 169, 222, 120, 74,
              72, 36, 8, 105, 53, 32, 149, 179, 253, 128, 219,
              194, 10, 193, 21, 67, 195, 136, 69, 150, 163, 184,
              81, 28, 166, 80, 245, 128, 50, 101, 5, 115, 87, 229,
              136, 64, 83, 45, 101, 87, 196, 56, 151, 221, 252,
              112, 163, 33, 144, 75>>
      [] name = "sha512" /\ data = <<128>> ->
              <<223, 232, 239, 84, 17, 11, 51, 36, 211, 184, 137, 3, 92, 149,
              207, 184, 12, 146, 112, 70, 20, 191, 118, 241, 117,
              70, 173, 79, 75, 8, 33, 138, 99, 14, 22, 218, 125,
              243, 71, 102, 169, 117, 179, 187, 133, 176, 29, 249,
              233, 154, 78, 192, 161, 208, 236, 61, 230, 190, 215,
              183, 164, 11, 47, 16>>
      [] name = "sha512" /\ data = <<170, 187>> ->
              <<19, 134, 142, 102, 225, 12, 136, 37, 190, 32, 84, 184, 250, 86,
              250, 240, 105, 56, 162, 198, 167, 232, 227, 131, 15,
              12, 39, 71, 119, 176, 67, 31, 25, 94, 0, 30, 104,
              11, 133, 197, 22, 22, 195, 117, 142, 134, 173, 63,
              254, 232, 129, 96, 97, 177, 162, 111, 176, 12, 90,
              60, 136, 39, 242, 111>>
      [] name = "sha512" /\ data = <<187, 170>> ->
              <<14, 21, 109, 140, 29, 90, 212, 113, 1, 26, 181, 5, 19, 157, 98,
              229, 221, 93, 21, 56, 9, 88, 153, 251, 107, 12, 226,
              82, 48, 236, 79, 116, 7, 51, 198, 20, 125, 166, 146,
              3, 72, 180, 197, 133, 36, 213, 61, 124, 187, 84,
              149, 184, 0, 238, 82, 235, 103, 160, 197, 33, 153,
              238, 52, 44>>
      [] name = "sha512" /\ data = <<170, 160>> ->
              <<183, 190, 64, 194, 147, 156, 119, 69, 22, 106, 3, 32, 245, 76,
              78, 97, 208, 102, 152, 220, 148, 23, 197, 159, 185,
              18, 0, 194, 118, 253, 178, 126, 236, 221, 49, 16,
              21, 45, 97, 223, 236, 237, 184, 215, 217, 46, 122,
              172, 212, 55, 122, 127, 127, 137, 229, 124, 101,
              184, 29, 136, 197, 195, 30, 108>>

\* m = hashlib.new(name); m.update(data); m.digest()
hashlib_new(name) == [name |-> name, data |-> <<>>]
hashlib_update(m, data) == [m EXCEPT !.data = @ \o data]
hashlib_digest(m) == hashlib_digest_of(m.name, m.data)

\* Raw.decode(data, unitSize, endianness, sign): a raw byte string has no
\* multi-byte units, so its bits are its bytes in order whatever the
\* parameters.
Raw_decode(data, unitSize, endianness, sign) == bitarray_frombytes(data)

\* Raw.encode(bits, unitSize, endianness, sign)
Raw_encode(bits, unitSize, endianness, sign) == bitarray_tobytes(bits)

\* TypeConverter.convert(data, sourceType, destinationType, ...): decodes
\* the source into a bit buffer, then encodes it in the destination type.
TypeConverter_convert(data, sourceType, destinationType, src_endianness, dst_endianness, src_unitSize, dst_unitSize, src_sign) ==
    LET binData == IF sourceType = "BitArray"
                   THEN data
                   ELSE Raw_decode(data, src_unitSize, src_endianness, src_sign)
    IN  IF destinationType = "BitArray"
        THEN binData
        ELSE Raw_encode(binData, dst_unitSize, dst_endianness, "unsigned")

\* The dataType of a relation built with dataType=None: Raw(nbBytes=1).
DefaultDataType == [endianness |-> "big", unitSize |-> SIZE_8, sign |-> "unsigned"]

\* AbstractRelationVariableLeaf.__init__(varType, dataType, targets, name):
\* a relation needs at least one target.
AbstractRelationVariableLeaf_init(s, varType, dataType, targets) ==
    IF Len(targets) = 0
    THEN Raise(NoRelation, "ValueError")
    ELSE Return([s EXCEPT !.varType = varType,
                          !.targets = targets,
                          !.dataType = IF dataType = PyNone THEN DefaultDataType
                                                            ELSE dataType],
                PyNone)

\* Hash.__init__(varType, targets, dataType, name)
Hash_init(s, varType, targets, dataType) ==
    AbstractRelationVariableLeaf_init(s, varType, dataType, targets)

\* A variant of SHA2_512.__init__ that does not run the parent constructor.
SHA2_512_init_skipsParent(s, targets, dataType) ==
    Return([s EXCEPT !.varType = "SHA2_512", !.targets = targets,
                     !.dataType = IF dataType = PyNone THEN DefaultDataType
                                                       ELSE dataType],
           PyNone)

\* SHA2_512.__init__(targets, dataType, name)
SHA2_512_init(s, targets, dataType) ==
    Hash_init(s, "SHA2_512", targets, dataType)

\* A variant of relationOperation that names the wrong digest.
SHA2_512_relationOperation_sha256(s, msg) ==
    LET m == hashlib_update(hashlib_new("sha256"), bitarray_tobytes(msg))
    IN  Return(s, PyBits(TypeConverter_convert(hashlib_digest(m), "Raw",
                   "BitArray", "little", s.dataType.endianness,
                   s.dataType.unitSize, s.dataType.unitSize, "unsigned")))

\* A variant of relationOperation that consumes its targets and leaves the
\* field's endianness switched.
SHA2_512_relationOperation_stateful(s, msg) ==
    LET m == hashlib_update(hashlib_new("sha512"), bitarray_tobytes(msg))
    IN  Return([s EXCEPT !.targets = <<>>, !.dataType.endianness = "little"],
               PyBits(TypeConverter_convert(hashlib_digest(m), "Raw",
                   "BitArray", "little", s.dataType.endianness,
                   s.dataType.unitSize, s.dataType.unitSize, "unsigned")))

\* A variant of relationOperation that never feeds the buffer to the
\* digest.
SHA2_512_relationOperation_skipsUpdate(s, msg) ==
    LET m == hashlib_new("sha512")
    IN  Return(s, PyBits(TypeConverter_convert(hashlib_digest(m), "Raw",
                   "BitArray", "little", s.dataType.endianness,
                   s.dataType.unitSize, s.dataType.unitSize, "unsigned")))

\* A variant of relationOperation that converts the digest's hexadecimal
\* text (two characters per byte) instead of the digest.
SHA2_512_relationOperation_hexdigest(s, msg) ==
    LET m == hashlib_update(hashlib_new("sha512"), bitarray_tobytes(msg))
        d == hashlib_digest(m)
        hex == [i \in 1..(2 * Len(d)) |->
                   LET nibble == IF i % 2 = 1 THEN d[(i + 1) \div 2] \div 16
                                              ELSE d[i \div 2] % 16
                   IN  IF nibble < 10 THEN 48 + nibble ELSE 87 + nibble]
    IN  Return(s, PyBits(TypeConverter_convert(hex, "Raw",
                   "BitArray", "little", s.dataType.endianness,
                   s.dataType.unitSize, s.dataType.unitSize, "unsigned")))

\* SHA2_512.relationOperation(msg)
SHA2_512_relationOperation(s, msg) ==
    LET m == hashlib_update(hashlib_new("sha512"), bitarray_tobytes(msg))
        result == hashlib_digest(m)
    IN  Return(s, PyBits(TypeConverter_convert(result, "Raw", "BitArray",
                   "little", s.dataType.endianness, s.dataType.unitSize,
                   s.dataType.unitSize, "unsigned")))

\* The digest each sibling class of Hashes/ names in hashlib.new, and the
\* number of leading digest bytes it keeps (SHA1_96 keeps 12).
Hash_algorithm(varType) ==
    CASE varType = "MD5" -> "md5"
      [] varType = "SHA1" -> "sha1"
      [] varType = "SHA1_96" -> "sha1"
      [] varType = "SHA2_224" -> "sha224"
      [] varType = "SHA2_256" -> "sha256"
      [] varType = "SHA2_384" -> "sha384"
      [] varType = "SHA2_512" -> "sha512"

Hash_kept(varType, digest) ==
    IF varType = "SHA1_96" THEN SubSeq(digest, 1, 12) ELSE digest

\* relationOperation of the sibling classes (MD5, SHA1, SHA1_96, SHA2_224,
\* SHA2_256, SHA2_384): the same steps as SHA2_512 with their own digest.
Sibling_relationOperation(s, msg) ==
    LET m == hashlib_update(hashlib_new(Hash_algorithm(s.varType)),
                            bitarray_tobytes(msg))
        result == Hash_kept(s.varType, hashlib_digest(m))
    IN  Return(s, PyBits(TypeConverter_convert(result, "Raw", "BitArray",
                   "little", s.dataType.endianness, s.dataType.unitSize,
                   s.dataType.unitSize, "unsigned")))

\* Hash(targets, hashName, dataType): the constructor of the class hashName
\* names.
Relation_init(s, varType, targets, dataType) ==
    IF varType = "SHA2_512"
    THEN SHA2_512_init(s, targets, dataType)
    ELSE Hash_init(s, varType, targets, dataType)

\* self.relationOperation(msg), dispatched on the relation's class.
Relation_relationOperation(s, msg) ==
    IF s.varType = "SHA2_512"
    THEN SHA2_512_relationOperation(s, msg)
    ELSE Sibling_relationOperation(s, msg)

\* The bit buffer a relation is evaluated on when its symbol is
\* specialized: the targets' encoded values in target order.
RECURSIVE ConcatTargets(_)
ConcatTargets(targets) ==
    IF targets = <<>> THEN <<>>
    ELSE Head(targets) \o ConcatTargets(Tail(targets))

\* Symbol.specialize() of a symbol made of the targets followed by the
\* relation field: the targets' bytes, then the relation's value.
Symbol_specialize(s) ==
    LET msg == ConcatTargets(s.targets)
        r == Relation_relationOperation(s, msg)
    IN  Return(r.self, PyBytes(bitarray_tobytes(msg \o r.value.elems)))

\* ------------------------------------------- the relation under test
\* The bytes aa, bb and 80 as bit buffers, most significant bit first.
BitsAA == <<1, 0, 1, 0, 1, 0, 1, 0>>
BitsBB == <<1, 0, 1, 1, 1, 0, 1, 1>>
Bits101 == <<1, 0, 1>>

\* The bit buffers relationOperation is called with: empty, whole bytes,
\* and buffers whose length is not a multiple of eight.
MsgValues ==
    {<<>>, BitsAA, BitsAA \o BitsBB, BitsBB \o BitsAA, BitsAA \o Bits101, <<1>>}

\* The target lists a relation is built on, each target given by its
\* field's encoded value.
TargetLists ==
    {<<>>, <<BitsAA \o BitsBB>>, <<BitsAA, BitsBB>>, <<BitsBB, BitsAA>>,
     <<BitsAA, Bits101>>}

HashClasses ==
    {"MD5", "SHA1", "SHA1_96", "SHA2_224", "SHA2_256", "SHA2_384", "SHA2_512"}

Endiannesses == {"big", "little"}
UnitSizes == {8, 16, 32, 64}
DataTypes ==
    {PyNone} \cup [endianness : Endiannesses, unitSize : UnitSizes,
                   sign : {"unsigned"}]

\* Before Hash(targets, hashName, dataType) is called.
InitHash ==
    /\ NoCall
    /\ dom_size = UnsetPair
    /\ args \in [varType : HashClasses, targets : TargetLists,
                 dataType : DataTypes]

\* What the calls on the relation leave alone.
mutatorVars == <<self, dom_size, okSinceReset, reconfigured, exhausted, wasReset, pair, hist, effects>>

ObserveRelation(op, arg, r) ==
    /\ relation' = r.self
    /\ lastOp' = op
    /\ lastArg' = arg
    /\ lastResult' = r.exc
    /\ lastValue' = r.value

\* relation = Hash(targets, hashName, dataType)
ConstructRelation ==
    /\ status = "unbuilt"
    /\ LET r == Relation_init(NoRelation, args.varType, args.targets,
                              args.dataType)
       IN  /\ ObserveRelation("__init__", PyNone, r)
           /\ status' = IF r.exc = "none" THEN "ok" ELSE r.exc
    /\ UNCHANGED <<mutatorVars, args, firstCall>>

\* relation.relationOperation(msg)
Call_relationOperation ==
    /\ status = "ok"
    /\ \E msg \in MsgValues :
           LET r == Relation_relationOperation(relation, msg)
           IN  /\ ObserveRelation("relationOperation", PyBits(msg), r)
               /\ firstCall' =
                      IF firstCall.made
                      THEN [firstCall EXCEPT !.between = @ \/ msg # firstCall.msg]
                      ELSE [msg |-> msg, value |-> r.value, made |-> TRUE,
                            between |-> FALSE]
    /\ UNCHANGED <<mutatorVars, args, status>>

\* Symbol([targets..., Field(relation)]).specialize()
Call_specialize ==
    /\ status = "ok"
    /\ LET r == Symbol_specialize(relation)
       IN  ObserveRelation("specialize", PyBits(ConcatTargets(relation.targets)), r)
    /\ firstCall' = [firstCall EXCEPT !.between = firstCall.made]
    /\ UNCHANGED <<mutatorVars, args, status>>

NextHash ==
    \/ ConstructRelation
    \/ Call_relationOperation
    \/ Call_specialize

SpecHash == InitHash /\ [][NextHash]_vars

\* C11: evaluating a relation changes neither its targets nor its dataType,
\* and a call with the bit buffer of the relation's first call returns the
\* value of that first call, whatever calls were made in between.
C11_StatelessIdempotent ==
    [][ (lastOp' \in {"relationOperation", "specialize"}
            => relation' = relation)
        /\ (lastOp' = "relationOperation" /\ firstCall.made
            /\ lastArg'.elems = firstCall.msg
            => lastValue' = firstCall.value) ]_vars

\* A later call repeats the first call's buffer after a call on another
\* buffer or a specialization.
C11_Witness ==
    /\ firstCall.made
    /\ firstCall.between
    /\ lastOp = "relationOperation"
    /\ lastArg.elems = firstCall.msg
    /\ lastValue = firstCall.value
    /\ relation.varType = "SHA2_512"
    /\ relation.dataType.endianness = "little"
    /\ relation.targets = <<BitsAA, BitsBB>>

\* The digest sizes in bytes.
C12_DigestSize(varType) ==
    CASE varType = "MD5" -> 16
      [] varType = "SHA1" -> 20
      [] varType = "SHA1_96" -> 12
      [] varType = "SHA2_224" -> 28
      [] varType = "SHA2_256" -> 32
      [] varType = "SHA2_384" -> 48
      [] varType = "SHA2_512" -> 64

\* C12: whatever the input buffer (the empty one included), the class of the
\* relation and the endianness and unit size of its dataType, the value
\* relationOperation returns is as many bytes long as the digest size of
\* the algorithm.
C12_DigestLength ==
    (lastOp = "relationOperation")
        => /\ lastResult = "none"
           /\ Len(lastValue.elems) = 8 * C12_DigestSize(relation.varType)

\* SHA2_512 evaluated on the empty buffer for a little-endian field of
\* 64-bit units.
C12_Witness ==
    /\ lastOp = "relationOperation"
    /\ lastArg.elems = <<>>
    /\ relation.varType = "SHA2_512"
    /\ relation.dataType.endianness = "little"
    /\ relation.dataType.unitSize = 64
    /\ Len(lastValue.elems) = 512

\* The digest bytes the algorithm of the relation produces for a buffer.
DigestBytes(r, bits) ==
    Hash_kept(r.varType,
              hashlib_digest_of(Hash_algorithm(r.varType), bitarray_tobytes(bits)))

RECURSIVE C14_Bytes(_)
C14_Bytes(bits) ==
    IF Len(bits) < 8 THEN <<>>
    ELSE <<128 * bits[1] + 64 * bits[2] + 32 * bits[3] + 16 * bits[4]
           + 8 * bits[5] + 4 * bits[6] + 2 * bits[7] + bits[8]>>
         \o C14_Bytes(SubSeq(bits, 9, Len(bits)))

\* The targets' values one after the other, first target first.
C14_InTargetOrder(targets) ==
    IF Len(targets) = 1 THEN targets[1] ELSE targets[1] \o targets[2]

\* binascii.hexlify(s.specialize()) of the documented symbol, up to the
\* ellipsis: aabb13868e66...0431f
C14_DocumentedOutput ==
    <<170, 187, 19, 134, 142, 102, 225, 12, 136, 37, 190, 32, 84,
      184, 250, 86, 250, 240, 105, 56, 162, 198, 167, 232, 227, 131,
      15, 12, 39, 71, 119, 176, 67, 31>>

\* C14: a SHA2_512 relation called with a whole-byte buffer returns the
\* SHA-512 digest of exactly the buffer's bytes; specializing a symbol
\* made of the targets followed by the relation gives the targets' bytes
\* in target order followed by the digest of these bytes; for one field
\* holding aa bb this is the documented aa bb 13 86 8e 66 ... 04 31 f.
C14_DigestOverBufferBytes ==
    /\ (lastOp = "relationOperation" /\ relation.varType = "SHA2_512"
        /\ Len(lastArg.elems) % 8 = 0)
           => C14_Bytes(lastValue.elems)
              = hashlib_digest_of("sha512", C14_Bytes(lastArg.elems))
    /\ (lastOp = "specialize" /\ relation.varType = "SHA2_512"
        /\ Len(C14_InTargetOrder(relation.targets)) % 8 = 0)
           => LET bytes == C14_Bytes(C14_InTargetOrder(relation.targets))
              IN  lastValue.elems = bytes \o hashlib_digest_of("sha512", bytes)
    /\ (lastOp = "specialize" /\ relation.varType = "SHA2_512"
        /\ relation.targets = <<BitsAA \o BitsBB>>)
           => /\ Len(lastValue.elems) = 2 + 64
              /\ SubSeq(lastValue.elems, 1, Len(C14_DocumentedOutput))
                 = C14_DocumentedOutput

\* The documented symbol has been specialized.
C14_Witness ==
    /\ lastOp = "specialize"
    /\ relation.varType = "SHA2_512"
    /\ relation.targets = <<BitsAA \o BitsBB>>
    /\ Len(lastValue.elems) = 66
    /\ lastValue.elems[3] = 19

\* C15: a relation given no target is not built, its construction raises;
\* every relation that exists has a target, and so has every relation
\* relationOperation is evaluated on.
C15_EmptyTargetsRejected ==
    /\ (args.targets = <<>> /\ status # "unbuilt")
           => (status = "ValueError" /\ lastResult = "ValueError"
               /\ relation = NoRelation)
    /\ status = "ok" => relation.targets # <<>>
    /\ lastOp \in {"relationOperation", "specialize"}
           => relation.targets # <<>>

\* SHA2_512([]) has raised.
C15_Witness ==
    /\ args.varType = "SHA2_512"
    /\ args.targets = <<>>
    /\ lastOp = "__init__"
    /\ status = "ValueError"

C19_FirstElement ==
    String_decode(StringPaddedGenerator_next([self.generator EXCEPT !.cursor = 0]).value)

\* C19: reset() sets currentCounter to 0 and leaves the composed generator
\* and its cursor as they were; the generate() that follows a reset() returns
\* the element under that cursor, the one after the last element produced,
\* and not the first element of the sequence when elements were produced
\* before.
C19_ResetKeepsCursor ==
    [][/\ (status = "ok" /\ lastOp' = "reset")
              => /\ self'.currentCounter = 0
                 /\ self'.generator = self.generator
       /\ (status = "ok" /\ lastOp = "reset" /\ lastOp' = "generate"
           /\ lastResult' = "none")
              => /\ lastValue'
                    = String_decode(StringPaddedGenerator_next(self.generator).value)
                 /\ self'.generator.cursor = self.generator.cursor + 1
                 /\ self.generator.cursor >= 1 => lastValue' # C19_FirstElement]_vars

\* The first generate() after a reset, two elements having been produced
\* before, has returned the third element.
C19_Witness ==
    /\ wasReset
    /\ okSinceReset = 1
    /\ lastOp = "generate"
    /\ lastResult = "none"
    /\ self.generator.cursor = 3
    /\ lastValue.v = DeterministGenerator_value(self.generator, 2)
    /\ lastValue # C19_FirstElement

\* =================================================================
\* The bounds of the length generator (checked under SpecConstruct)
\* =================================================================
\* C20: for a caller interval of integers (min, max) with min <= max and a
\* finite domain size (minBits, maxBits) with minBits <= maxBits, the
\* mutator is built with a length generator whose minValue is at most its
\* maxValue.
C20_BoundsOrdered ==
    (/\ status # "unbuilt"
     /\ IsIntPair(args.interval)
     /\ args.interval.elems[1].v <= args.interval.elems[2].v
     /\ IsIntPair(dom_size)
     /\ dom_size.elems[1].v <= dom_size.elems[2].v)
        => /\ status = "ok"
           /\ self.generator.minValue <= self.generator.maxValue

\* =================================================================
\* Two mutators attached to two fields
\* =================================================================
MutatorIds == {"A", "B"}

\* The documented construction and another one, over the same domain.
DocArgs ==
    [seed |-> SEED_DEFAULT, counterMax |-> 2,
     interval |-> DocInterval, naughtyStrings |-> PyNone]
OtherArgs ==
    [seed |-> SEED_DEFAULT + 1, counterMax |-> 1,
     interval |-> Pair(40, 50), naughtyStrings |-> PyNone]

\* StringMutator(domain, **a) for constructions that succeed.
Built(a) ==
    StringMutator_init(DocDomainSize, a.seed, a.counterMax, DEFAULT_END_CHAR,
                       a.interval, SIZE_8, a.naughtyStrings).self

\* A variant of the attribute store in which currentCounter is one
\* attribute of the class, seen by every instance.
Pair_store_sharedCounter(p, id, s) ==
    [x \in MutatorIds |->
        IF x = id THEN s ELSE [p[x] EXCEPT !.currentCounter = s.currentCounter]]

\* Every attribute a method assigns is an attribute of self: the object the
\* call was made on takes the new state.
Pair_store(p, id, s) == [p EXCEPT ![id] = s]

\* mutator.<op>(arg) as the object alone carries it out.
Method(s, op, arg) ==
    CASE op = "generate" -> StringMutator_generate(s)
      [] op = "reset" -> Mutator_reset(s)
      [] op = "updateSeed" -> Mutator_updateSeed(s, arg)
      [] op = "currentState" -> Mutator_currentState_set(s, arg)
      [] op = "counterMax" -> Mutator_counterMax_set(s, arg)

\* Two mutators built, no call made yet.
InitPair ==
    /\ self = NoMutator
    /\ dom_size = DocDomainSize
    /\ args \in [A : {DocArgs}, B : {DocArgs, OtherArgs}]
    /\ status = "ok"
    /\ lastOp = "none"
    /\ lastArg = PyNone
    /\ lastResult = "none"
    /\ lastValue = PyNone
    /\ okSinceReset = 0
    /\ reconfigured = FALSE
    /\ exhausted = "no"
    /\ wasReset = FALSE
    /\ relation = NoRelation
    /\ firstCall = NoFirstCall
    /\ pair = [id \in MutatorIds |-> Built(args[id])]
    /\ hist = [id \in MutatorIds |-> <<>>]
    /\ effects = <<>>

\* What a call on one mutator of the pair leaves alone.
singleVars == <<self, dom_size, args, status, okSinceReset, reconfigured, exhausted, wasReset, relation, firstCall, effects>>

\* One call on mutator id: its effect on the pair, its outcome for the
\* caller, and the record of the call in the mutator's history.
Pair_call(id, op, arg) ==
    /\ Len(hist.A) + Len(hist.B) < MaxCalls
    /\ LET r == Method(pair[id], op, arg)
       IN  /\ pair' = Pair_store(pair, id, r.self)
           /\ hist' = [hist EXCEPT ![id] = Append(@, [op |-> op, arg |-> arg,
                                                     exc |-> r.exc,
                                                     value |-> r.value])]
           /\ lastOp' = op
           /\ lastArg' = arg
           /\ lastResult' = r.exc
           /\ lastValue' = r.value
    /\ UNCHANGED singleVars

Pair_generate == \E id \in MutatorIds : Pair_call(id, "generate", PyNone)
Pair_reset == \E id \in MutatorIds : Pair_call(id, "reset", PyNone)
Pair_updateSeed ==
    \E id \in MutatorIds : Pair_call(id, "updateSeed", PyInt(SEED_DEFAULT + 2))
Pair_currentState_set ==
    \E id \in MutatorIds : Pair_call(id, "currentState", PyInt(1))
Pair_counterMax_set ==
    \E id \in MutatorIds : Pair_call(id, "counterMax", PyInt(1))

NextPair ==
    \/ Pair_generate
    \/ Pair_reset
    \/ Pair_updateSeed
    \/ Pair_currentState_set
    \/ Pair_counterMax_set

SpecPair == InitPair /\ [][NextPair]_vars

\* A mutator's recorded calls carried out on a mutator of its own: the
\* state it ends in, and whether every outcome and value is the recorded one.
RECURSIVE C16_Alone(_, _)
C16_Alone(s, h) ==
    IF h = <<>>
    THEN [self |-> s, same |-> TRUE]
    ELSE LET r == Method(s, Head(h).op, Head(h).arg)
             rest == C16_Alone(r.self, Tail(h))
         IN  [self |-> rest.self,
              same |-> /\ r.exc = Head(h).exc
                       /\ r.value = Head(h).value
                       /\ rest.same]

\* C16: however the calls on A and B are interleaved, each mutator has the
\* outcomes and the final state (seed, currentState, counterMax,
\* currentCounter, generator) that its own calls give it when made on it
\* alone; so no call on one mutator has changed the other.
C16_Independent ==
    \A id \in MutatorIds :
        LET alone == C16_Alone(Built(args[id]), hist[id])
        IN  alone.same /\ alone.self = pair[id]

\* A has used up its budget and B, built with other arguments, has been
\* called in between and is still within its own.
C16_Witness ==
    /\ args.A # args.B
    /\ Len(hist.A) = 3
    /\ hist.A[3].exc = "MaxMutationCounterReached"
    /\ Len(hist.B) = 1
    /\ hist.B[1].op = "generate"
    /\ lastOp = "generate"
    /\ lastResult = "MaxMutationCounterReached"
    /\ pair.A.currentCounter = 2
    /\ pair.B.currentCounter = 1

\* The values a mutator's generate() calls returned, in order.
C17_Values(id) ==
    LET IsValue(e) == e.op = "generate" /\ e.exc = "none"
        made == SelectSeq(hist[id], IsValue)
    IN  [k \in 1..Len(made) |-> made[k].value]

\* The (seed, minValue, maxValue, bitsize) a generator was built with.
C17_Tuple(g) == <<g.seed, g.minValue, g.maxValue, g.bitsize>>

\* The k-th element of a generator built anew from the mutator's arguments.
C17_Element(id, k) ==
    String_decode(StringPaddedGenerator_next(
        [Built(args[id]).generator EXCEPT !.cursor = k - 1]).value)

\* C17: mutators built with the same arguments have length generators built
\* from the same (seed, minValue, maxValue, bitsize); generators built from
\* the same tuple give the same value at every position both have reached;
\* the k-th value a mutator returns is the k-th element of a generator
\* built anew from its arguments.
C17_Determinism ==
    /\ args.A = args.B
           => C17_Tuple(pair.A.generator) = C17_Tuple(pair.B.generator)
    /\ C17_Tuple(pair.A.generator) = C17_Tuple(pair.B.generator)
           => \A k \in 1..Min2(Len(C17_Values("A")), Len(C17_Values("B"))) :
                  C17_Values("A")[k] = C17_Values("B")[k]
    /\ \A id \in MutatorIds : \A k \in 1..Len(C17_Values(id)) :
           C17_Values(id)[k] = C17_Element(id, k)

\* Two mutators built alike have each returned two values, the second one
\* another than the first.
C17_Witness ==
    /\ args.A = args.B
    /\ Len(C17_Values("A")) = 2
    /\ Len(C17_Values("B")) = 2
    /\ C17_Values("A") = C17_Values("B")
    /\ C17_Values("A")[1] # C17_Values("A")[2]

\* =================================================================
\* The XML loader of an automaton (MMSTDXmlParser.py)
\* =================================================================
\* An XML element is given by its tag, its attributes and its children; an
\* attribute the element does not carry is Absent.
Absent == "<absent>"

\* element.get(key, default)
Element_get(attribute, default) ==
    IF attribute = Absent THEN default ELSE attribute

\* int(text): the texts that are integer literals, and their values.
IntTexts == {"-1", "0", "1", "2"}
int(text) ==
    CASE text = "-1" -> -1
      [] text = "0" -> 0
      [] text = "1" -> 1
      [] text = "2" -> 2

\* The outcome of loadFromXML: the exception raised and its message, or
\* the value returned, and what the call has done on its way.
ParserRaise(e, msg, done) ==
    [exc |-> e, msg |-> msg, value |-> PyNone, effects |-> done]
ParserReturn(val, done) ==
    [exc |-> "none", msg |-> "", value |-> val, effects |-> done]

\* NormalState(idState, nameState), with the transitions registered on it.
NormalState(idState, nameState) ==
    [id |-> idState, name |-> nameState, transitions |-> <<>>]

\* DictionaryXmlParser.loadFromXML(dicoTree.getroot()), dictionary.getEntry
\* and DictionarySymbol(entry).
DictionaryXmlParser_loadFromXML(dictionaryFile) == [file |-> dictionaryFile]
Dictionary_getEntry(dictionary, idEntry) == [entry |-> idEntry]
DictionarySymbol(entry) == [symbol |-> entry]

\* SemiStochasticTransition(id, name, inputState, outputState, inputSymbol)
\* and transition.addOutputSymbol(symbol, probability, time); the two
\* states are held by their positions in the list of states (0 for None).
SemiStochasticTransition(idTransition, nameTransition, inputState, outputState, inputSymbol) ==
    [id |-> idTransition, name |-> nameTransition, inputState |-> inputState,
     outputState |-> outputState, inputSymbol |-> inputSymbol,
     outputSymbols |-> <<>>]
Transition_addOutputSymbol(transition, outputSymbol) ==
    [transition EXCEPT !.outputSymbols = Append(@, outputSymbol)]

\* MMSTD(initialState, dictionary)
MMSTD(initialState, dictionary) ==
    [t |-> "MMSTD", initialState |-> initialState, dictionary |-> dictionary]

\* Lines 77-86: the loop over the state elements. initialState is the
\* position in states of the last state created with id 0 (0 for None).
RECURSIVE ParseStates(_, _, _, _)
ParseStates(xmlStates, states, initialState, done) ==
    IF xmlStates = <<>>
    THEN [exc |-> "none", states |-> states, initialState |-> initialState,
          effects |-> done]
    ELSE LET xmlState == Head(xmlStates)
             idText == Element_get(xmlState.id, "-1")
         IN  IF idText \notin IntTexts
             THEN [exc |-> "ValueError", states |-> states,
                   initialState |-> initialState, effects |-> done]
             ELSE LET idState == int(idText)
                      nameState == Element_get(xmlState.name, "none")
                      state == NormalState(idState, nameState)
                  IN  ParseStates(Tail(xmlStates), Append(states, state),
                                  IF idState = 0 THEN Len(states) + 1
                                                 ELSE initialState,
                                  Append(done, "NormalState"))

\* Lines 104-110: the position of the last state with the given id (0 for
\* None).
RECURSIVE FindState(_, _, _)
FindState(states, idState, n) ==
    IF n = 0 THEN 0
    ELSE IF states[n].id = idState THEN n
    ELSE FindState(states, idState, n - 1)

\* Lines 114-121: the loop over the output elements of a transition.
RECURSIVE ParseOutputs(_, _, _)
ParseOutputs(xmlOutputs, transition, dictionary) ==
    IF xmlOutputs = <<>>
    THEN transition
    ELSE LET outputId == int(Head(xmlOutputs).text)
             outputSymbol == DictionarySymbol(Dictionary_getEntry(dictionary, outputId))
         IN  ParseOutputs(Tail(xmlOutputs),
                          Transition_addOutputSymbol(transition, outputSymbol),
                          dictionary)

\* Lines 89-123: the loop over the transition elements.
RECURSIVE ParseTransitions(_, _, _, _)
ParseTransitions(xmlTransitions, states, dictionary, done) ==
    IF xmlTransitions = <<>>
    THEN [exc |-> "none", states |-> states, effects |-> done]
    ELSE LET xmlTransition == Head(xmlTransitions)
             idTransition == int(Element_get(xmlTransition.id, "-1"))
             nameTransition == Element_get(xmlTransition.name, "none")
             idStartTransition == int(Element_get(xmlTransition.idStart, "-1"))
             idEndTransition == int(Element_get(xmlTransition.idEnd, "-1"))
             xmlInput == xmlTransition.input
         IN  IF xmlInput = Absent
             THEN [exc |-> "AttributeError", states |-> states, effects |-> done]
             ELSE LET inputId == int(xmlInput)
                      inputSymbol == DictionarySymbol(Dictionary_getEntry(dictionary, inputId))
                      inputStateTransition ==
                          FindState(states, idStartTransition, Len(states))
                      outputStateTransition ==
                          FindState(states, idEndTransition, Len(states))
                      created == SemiStochasticTransition(idTransition,
                                     nameTransition, inputStateTransition,
                                     outputStateTransition, inputSymbol)
                      transition == ParseOutputs(xmlTransition.outputs,
                                                 created, dictionary)
                      done1 == Append(done, "SemiStochasticTransition")
                  IN  IF inputStateTransition = 0
                      THEN [exc |-> "AttributeError", states |-> states,
                            effects |-> done1]
                      ELSE ParseTransitions(Tail(xmlTransitions),
                               [states EXCEPT ![inputStateTransition].transitions
                                                  = Append(@, transition)],
                               dictionary,
                               Append(done1, "registerTransition"))

\* MMSTDXmlParser.loadFromXML(rootElement), with the files that can be
\* read.
MMSTDXmlParser_loadFromXML(rootElement, files) ==
    IF rootElement.tag # "automata"
    THEN ParserRaise("NameError", "The parsed XML doesn't represent an automata.", <<>>)
    ELSE IF Element_get(rootElement.type, "none") # "mmstd"
    THEN ParserRaise("NameError", "The parsed XML doesn't represent an MMSTD", <<>>)
    ELSE IF Element_get(rootElement.dictionary, "none") = "none"
    THEN ParserRaise("NameError", "The MMSTD doesn't have any dictionary declared", <<>>)
    ELSE
    LET dictionaryFile == Element_get(rootElement.dictionary, "none")
        parsed == <<"ElementTree.parse">>
    IN  IF dictionaryFile \notin files
        THEN ParserRaise("IOError", "", parsed)
        ELSE
        LET dictionary == DictionaryXmlParser_loadFromXML(dictionaryFile)
            s == ParseStates(rootElement.states, <<>>, 0,
                             Append(parsed, "DictionaryXmlParser.loadFromXML"))
        IN  IF s.exc # "none"
            THEN ParserRaise(s.exc, "", s.effects)
            ELSE
            LET tr == ParseTransitions(rootElement.transitions, s.states,
                                       dictionary, s.effects)
            IN  IF tr.exc # "none"
                THEN ParserRaise(tr.exc, "", tr.effects)
                ELSE ParserReturn(
                         MMSTD(IF s.initialState = 0 THEN PyNone
                               ELSE tr.states[s.initialState], dictionary),
                         Append(tr.effects, "MMSTD"))

\* ------------------------------------------------ the documents parsed
\* The state elements: with or without an id, numeric or not, named after
\* their place in the document.
XmlStateIds == {Absent, "0", "1", "x"}
XmlStates ==
    {<<>>}
    \cup {<<[id |-> a, name |-> "first"]>> : a \in XmlStateIds}
    \cup {<<[id |-> a, name |-> "first"], [id |-> b, name |-> "second"]>> :
              a \in XmlStateIds, b \in XmlStateIds}

\* The transition elements: none, or one that starts and ends at a state
\* that may not be declared, with or without input and output.
XmlTransitions ==
    {<<>>}
    \cup {<<[id |-> "0", name |-> Absent, idStart |-> a, idEnd |-> b,
             input |-> i, outputs |-> o]>> :
              a \in {"0", "1", "2"}, b \in {"0", "1"}, i \in {Absent, "0"},
              o \in {<<>>, <<[text |-> "1"]>>}}

\* The root elements, and the dictionary file that exists.
DictionaryFiles == {"dictionary.xml"}
RootElements ==
    [tag : {"automata", "dictionary"},
     type : {Absent, "mmstd", "other"},
     dictionary : {Absent, "none", "dictionary.xml", "missing.xml"},
     states : XmlStates,
     transitions : XmlTransitions]

\* Before loadFromXML(rootElement) is called.
InitParser ==
    /\ NoCall
    /\ dom_size = UnsetPair
    /\ args \in RootElements

\* automata = MMSTDXmlParser.loadFromXML(rootElement)
Call_loadFromXML ==
    /\ status = "unbuilt"
    /\ LET r == MMSTDXmlParser_loadFromXML(args, DictionaryFiles)
       IN  /\ lastOp' = "loadFromXML"
           /\ lastArg' = [message |-> r.msg]
           /\ lastResult' = r.exc
           /\ lastValue' = r.value
           /\ effects' = r.effects
           /\ status' = IF r.exc = "none" THEN "ok" ELSE r.exc
    /\ UNCHANGED <<self, dom_size, args, okSinceReset, reconfigured, exhausted, wasReset, relation, firstCall, pair, hist>>

NextParser == Call_loadFromXML

SpecParser == InitParser /\ [][NextParser]_vars

\* =================================================================
\* Properties of MMSTDXmlParser.loadFromXML (checked under SpecParser)
\* =================================================================
\* The three checks of the root element, in their order, each before
\* anything else is done.
C21_RootChecks ==
    (lastOp = "loadFromXML") =>
        /\ args.tag # "automata"
               => /\ lastResult = "NameError"
                  /\ lastArg.message = "The parsed XML doesn't represent an automata."
                  /\ effects = <<>>
        /\ (args.tag = "automata" /\ args.type # "mmstd")
               => /\ lastResult = "NameError"
                  /\ lastArg.message = "The parsed XML doesn't represent an MMSTD"
                  /\ effects = <<>>
        /\ (args.tag = "automata" /\ args.type = "mmstd"
            /\ args.dictionary = Absent)
               => /\ lastResult = "NameError"
                  /\ lastArg.message = "The MMSTD doesn't have any dictionary declared"
                  /\ effects = <<>>

\* A root element that passes the three checks and names a dictionary file
\* that can be read.
C21_ValidRoot ==
    /\ args.tag = "automata"
    /\ args.type = "mmstd"
    /\ args.dictionary \in DictionaryFiles

\* The value returned is an MMSTD whose initial state is a state the
\* document declares with id 0.
C21_InitialIsDeclaredZero ==
    /\ lastResult = "none"
    /\ lastValue.t = "MMSTD"
    /\ lastValue.initialState # PyNone
    /\ \E i \in 1..Len(args.states) :
           /\ args.states[i].id = "0"
           /\ lastValue.initialState.id = 0
           /\ lastValue.initialState.name = args.states[i].name

\* C21: loadFromXML raises NameError for a root whose tag is not
\* "automata", else whose type is not "mmstd", else that declares no
\* dictionary, in this order and before the dictionary file is parsed or a
\* state or transition is created; for a valid root it returns an MMSTD
\* whose initial state is the declared state with id 0.
C21_LoadFromXML ==
    /\ C21_RootChecks
    /\ (lastOp = "loadFromXML" /\ C21_ValidRoot) => C21_InitialIsDeclaredZero

====
